---- MODULE Spec2Model ----
(***************************************************************************)
(* Model of the log parser of dbaaiassist                                  *)
(* (src/dbaaiassist/data/log_parser/postgres_log.py).                      *)
(*                                                                         *)
(* Text is modelled as a sequence of atoms.  An atom is a run of           *)
(* characters that the parser never looks inside, except through the       *)
(* tables below (does it contain a colon, what follows the colon, its      *)
(* upper-case form, which keyword it starts with).  A single blank is the  *)
(* atom SP, so strip, join, startswith, find and split are computed on     *)
(* the atoms the way Python computes them on the characters.               *)
(***************************************************************************)
EXTENDS Integers, Sequences, FiniteSets, TLC

\* ------------------------------------------------------------------ bounds
\* Longest input (in lines) handed to one parse_file call.
MaxLines == 4
\* Largest sample_size a caller passes to parse_file.
MaxSample == 2
\* Longest query text (in atoms) drawn for the pattern normalizer.
MaxText == 5
\* Longest list of Queries handed to analyze_queries.
MaxBatch == 3

\* --------------------------------------------------------------- the atoms
SP == " "
MARKER == "did not match any log pattern:"
MATCHED == "Matched SQLAlchemy log line:"

\* None of Python, for the optional timestamps; real times are 1 to 5, in
\* the order of the clock readings they stand for.
None == 0

\* Timestamps in the ORM (SQLAlchemy) form "date time,millis".
SaStampAtoms == {"2025-05-09 09:51:01,000", "2025-05-09 09:51:02,000",
                 "2025-05-09 09:51:03,000", "2025-13-09 09:51:01,000",
                 "2026-03-08 02:30:00,000", "2026-03-08 03:30:00,000"}
\* Timestamps in the native (PostgreSQL) form "date time.millis".
PgStampAtoms == {"2025-05-09 09:51:01.000", "2025-05-09 09:51:02.000",
                 "2025-05-09 09:51:03.000", "2025-13-09 09:51:01.000"}

\* datetime.strptime: the time a stamp denotes, None when strptime raises
\* ValueError (month 13).
StampTime(a) ==
    CASE a \in {"2025-05-09 09:51:01,000", "2025-05-09 09:51:01.000"} -> 1
      [] a \in {"2025-05-09 09:51:02,000", "2025-05-09 09:51:02.000"} -> 2
      [] a \in {"2025-05-09 09:51:03,000", "2025-05-09 09:51:03.000"} -> 3
      [] a = "2026-03-08 02:30:00,000" -> 4
      [] a = "2026-03-08 03:30:00,000" -> 5
      [] OTHER -> None

\* The time zones of the process that runs the parser: one without daylight
\* saving time, and one whose clocks skip from 02:00 to 03:00 on 2026-03-08.
Zones == {"UTC", "America/New_York"}

\* datetime.timestamp() of a naive datetime: the POSIX time of that clock
\* reading in the local zone, kept as the time whose reading it is.  A reading
\* inside the skipped hour is taken with the offset in force before the
\* change, which makes it the instant that reads one hour later.
PosixTime(zone, t) ==
    IF zone = "America/New_York" /\ t = StampTime("2026-03-08 02:30:00,000")
    THEN StampTime("2026-03-08 03:30:00,000") ELSE t

\* Atoms matched by \w+ .
WordAtoms == {"INFO", "DEBUG", "UTC", "mydb", "Line", "635", "a", "b", "t", "u",
              "SELECT", "INSERT", "UPDATE", "DELETE", "BEGIN", "COMMIT", "ROLLBACK",
              "FROM", "WHERE", "LIMIT", "JOIN", "ms", "x", "AS", "received",
              "connection", "PREPARED", "COMMITTED", "INTO"}
\* Atoms matched by \d+\.\d+ .
DecimalAtoms == {"12.345", "0.250"}
\* float() of a decimal atom, in microseconds (milliseconds * 1000).
DecimalMicros(a) == CASE a = "12.345" -> 12345 [] a = "0.250" -> 250 [] OTHER -> 0
\* The nominal 0.1 ms, in microseconds.
NominalMicros == 100

\* Atoms that contain the character ':' .
ColonAtoms == SaStampAtoms \cup PgStampAtoms \cup
              {MARKER, MATCHED, "LOG:", "ERROR:", "WARNING:", "duration:",
               "statement:", "execute <unnamed>:", "bob@host:", "{'p': 1}"}
\* The text of a colon atom after its first ':' (what str.split(":", 1)
\* leaves of it in parts[1]).
ColonTail(a) ==
    CASE a \in SaStampAtoms \cup PgStampAtoms -> <<"51:0x">>
      [] a = "{'p': 1}" -> <<SP, "1}">>
      [] OTHER -> <<>>

\* str.upper() of one atom.
UpperAtom(a) ==
    CASE a = "a" -> "A" [] a = "b" -> "B" [] a = "t" -> "T" [] a = "u" -> "U"
      [] a = "x" -> "X" [] a = "mydb" -> "MYDB" [] a = "from" -> "FROM"
      [] a = "w" -> "W" [] a = "y" -> "Y" [] a = "z" -> "Z"
      [] a = "Line" -> "LINE" [] a = "[t]" -> "[T]"
      [] a = "(implicit)" -> "(IMPLICIT)"
      [] a = "stock_company_info" -> "STOCK_COMPANY_INFO"
      [] a = MARKER -> "DID NOT MATCH ANY LOG PATTERN:"
      [] OTHER -> a

\* Pairs <<atom, keyword>> where the atom is longer than the keyword and
\* starts with its characters.
CharPrefixPairs == {<<"COMMITTED", "COMMIT">>, <<"[cached since 22.05s ago]", "[">>,
                    <<"[generated in 0.002s]", "[">>, <<"[abc1]", "[">>,
                    <<"[123]", "[">>, <<"[T]", "[">>}
CharPrefix(a, kw) == a = kw \/ <<a, kw>> \in CharPrefixPairs

\* ---------------------------------------------------------- string helpers
RECURSIVE LStrip(_)
LStrip(s) == IF s # <<>> /\ Head(s) = SP THEN LStrip(Tail(s)) ELSE s

RECURSIVE RStrip(_)
RStrip(s) == IF s # <<>> /\ s[Len(s)] = SP THEN RStrip(SubSeq(s, 1, Len(s) - 1)) ELSE s

\* str.strip()
Strip(s) == RStrip(LStrip(s))

\* str.upper()
Upper(s) == [k \in 1..Len(s) |-> UpperAtom(s[k])]

\* str.startswith(p), for a keyword p given as atoms
StartsWith(s, p) ==
    /\ p # <<>>
    /\ Len(s) >= Len(p)
    /\ SubSeq(s, 1, Len(p) - 1) = SubSeq(p, 1, Len(p) - 1)
    /\ CharPrefix(s[Len(p)], p[Len(p)])

StartsWithAny(s, ps) == \E p \in ps : StartsWith(s, p)

\* ' '.join(parts)
RECURSIVE Join(_)
Join(parts) ==
    IF parts = <<>> THEN <<>>
    ELSE IF Len(parts) = 1 THEN parts[1]
    ELSE parts[1] \o <<SP>> \o Join(Tail(parts))

\* str.find(p, from): least index k >= from where p occurs in s, 0 if none
Find(s, p, from) ==
    LET hits == {k \in from..(Len(s) - Len(p) + 1) : SubSeq(s, k, k + Len(p) - 1) = p}
    IN  IF hits = {} THEN 0 ELSE CHOOSE k \in hits : \A j \in hits : k <= j

\* str.split(":", 1): <<before>> when there is no colon, else <<before, after>>
SplitColon(s) ==
    LET cs == {k \in 1..Len(s) : s[k] \in ColonAtoms}
    IN  IF cs = {} THEN <<s>>
        ELSE LET k == CHOOSE c \in cs : \A j \in cs : c <= j
             IN  <<SubSeq(s, 1, k), ColonTail(s[k]) \o SubSeq(s, k + 1, Len(s))>>

\* ------------------------------------------------------ the line patterns
UserHostAtoms == {"bob@host:"}
PidAtoms == {"[123]"}
SessionAtoms == {"[abc1]", "[123]"}
LevelAtoms == {"LOG:", "ERROR:", "WARNING:"}

\* Where the (\w+) user_db group of DEFAULT_LOG_PATTERN sits in the line.
PgDbPos(line) == IF Len(line) >= 7 /\ line[7] \in UserHostAtoms THEN 8 ELSE 7

\* re.match(DEFAULT_LOG_PATTERN, line).  The '.' before the fraction is not
\* escaped, so a stamp with a comma matches too.
PgMatch(line) ==
    LET k == PgDbPos(line)
    IN  /\ Len(line) >= k + 6
        /\ line[1] \in PgStampAtoms \cup SaStampAtoms
        /\ line[2] = SP /\ line[3] \in WordAtoms /\ line[4] = SP
        /\ line[5] \in PidAtoms /\ line[6] = SP
        /\ line[k] \in WordAtoms /\ line[k + 1] = SP
        /\ line[k + 2] \in SessionAtoms /\ line[k + 3] = SP
        /\ line[k + 4] \in LevelAtoms /\ line[k + 5] = SP /\ line[k + 6] = SP

\* pg_match.groups()
PgGroups(line) ==
    LET k == PgDbPos(line)
    IN  [timestamp_str |-> line[1], pid |-> line[5], user_db |-> line[k],
         session_id |-> line[k + 2], message |-> SubSeq(line, k + 7, Len(line))]

\* datetime.strptime(timestamp_str, '%Y-%m-%d %H:%M:%S.%f')
PgStrptime(a) == IF a \in PgStampAtoms THEN StampTime(a) ELSE None

\* re.match(SQLALCHEMY_LOG_PATTERN, line)
SaMatch(line) ==
    /\ Len(line) >= 9
    /\ line[1] \in SaStampAtoms
    /\ line[2] = SP /\ line[3] = "-" /\ line[4] = SP
    /\ line[5] \in WordAtoms
    /\ line[6] = SP /\ line[7] = "-" /\ line[8] = SP

\* sa_match.groups()
SaGroups(line) ==
    [timestamp_str |-> line[1], log_level |-> line[5],
     message |-> SubSeq(line, 9, Len(line))]

\* datetime.strptime(timestamp_str, '%Y-%m-%d %H:%M:%S,%f')
SaStrptime(a) == IF a \in SaStampAtoms THEN StampTime(a) ELSE None

\* re.search(DURATION_PATTERN, message): index of the leftmost match, 0 if none.
\* Two blanks separate "ms" from "statement:".
DurationPos(message) ==
    LET hits == {k \in 1..(Len(message) - 9) :
                    /\ message[k] = "duration:" /\ message[k + 1] = SP
                    /\ message[k + 2] \in DecimalAtoms /\ message[k + 3] = SP
                    /\ message[k + 4] = "ms" /\ message[k + 5] = SP /\ message[k + 6] = SP
                    /\ message[k + 7] \in {"statement:", "execute <unnamed>:"}
                    /\ message[k + 8] = SP}
    IN  IF hits = {} THEN 0 ELSE CHOOSE k \in hits : \A j \in hits : k <= j

\* Mutant of DurationGroups: the statement group starts one atom early.
DurationGroupsEarly(message) ==
    LET k == DurationPos(message)
    IN  [duration_ms |-> message[k + 2],
         query_text |-> SubSeq(message, k + 8, Len(message))]

\* duration_match.groups()
DurationGroups(message) ==
    LET k == DurationPos(message)
    IN  [duration_ms |-> message[k + 2],
         query_text |-> SubSeq(message, k + 9, Len(message))]

\* ------------------------------------------------------- table extraction
\* str.split(): the maximal runs of atoms between blanks.
RECURSIVE Tokens(_)
Tokens(s) ==
    LET t == LStrip(s)
        sps == {k \in 1..Len(t) : t[k] = SP}
        e == IF sps = {} THEN Len(t) + 1 ELSE CHOOSE k \in sps : \A j \in sps : k <= j
    IN  IF t = <<>> THEN <<>>
        ELSE <<SubSeq(t, 1, e - 1)>> \o Tokens(SubSeq(t, e, Len(t)))

\* str.split(','): the pieces between the comma atoms.
RECURSIVE SplitComma(_)
SplitComma(s) ==
    LET k == Find(s, <<",">>, 1)
    IN  IF k = 0 THEN <<s>>
        ELSE <<SubSeq(s, 1, k - 1)>> \o SplitComma(SubSeq(s, k + 1, Len(s)))

\* token.strip('"\'`[]') of a token; only single-atom tokens of the alphabet
\* carry quote or bracket characters.
StripQuotes(tok) ==
    IF Len(tok) # 1 THEN tok
    ELSE CASE tok[1] = "[T]" -> <<"T">>
           [] tok[1] = "[ABC1]" -> <<"ABC1">>
           [] tok[1] = "[123]" -> <<"123">>
           [] tok[1] = "[]" -> <<>>
           [] OTHER -> tok

\* parts = s.strip().split(); parts[0].strip(quotes) when parts and the result
\* are non-empty: the set holding that table, else the empty set.
FirstTable(s) ==
    LET parts == Tokens(Strip(s))
    IN  IF parts = <<>> THEN {}
        ELSE IF StripQuotes(parts[1]) = <<>> THEN {} ELSE {StripQuotes(parts[1])}

FromStopClauses == <<<<"WHERE">>, <<"GROUP", SP, "BY">>, <<"HAVING">>,
                     <<"ORDER", SP, "BY">>, <<"LIMIT">>, <<"OFFSET">>>>

\* The loop "for clause in [...]: pos = from_clause.find(clause); if pos != -1:
\* from_clause = from_clause[:pos]", from clause number n on.
RECURSIVE Truncate(_, _)
Truncate(from_clause, n) ==
    IF n > Len(FromStopClauses) THEN from_clause
    ELSE LET pos == Find(from_clause, FromStopClauses[n], 1)
         IN  Truncate(IF pos # 0 THEN SubSeq(from_clause, 1, pos - 1) ELSE from_clause, n + 1)

\* Mutant of RefTables: only the first reference is looked at.
RefTablesFirstOnly(table_refs) ==
    IF table_refs = <<>> THEN {} ELSE FirstTable(Head(table_refs))

\* The tables of the comma-separated references of a FROM clause.
RECURSIVE RefTables(_)
RefTables(table_refs) ==
    IF table_refs = <<>> THEN {}
    ELSE FirstTable(Head(table_refs)) \cup RefTables(Tail(table_refs))

\* The while loop over the occurrences of JOIN, from position join_pos on.
RECURSIVE JoinTables(_, _)
JoinTables(query_upper, join_pos) ==
    LET pos == Find(query_upper, <<"JOIN">>, join_pos)
    IN  IF pos = 0 THEN {}
        ELSE FirstTable(SubSeq(query_upper, pos + 1, Len(query_upper)))
                 \cup JoinTables(query_upper, pos + 1)

\* PostgreSQLLogParser._extract_tables; list(set(tables)) is the set.
ExtractTables(query_text) ==
    LET query_upper == Upper(query_text)
        from_pos == Find(query_upper, <<"FROM">>, 1)
        from_tables ==
            IF from_pos = 0 THEN {}
            ELSE RefTables(SplitComma(
                     Truncate(SubSeq(query_upper, from_pos + 1, Len(query_upper)), 1)))
        dml_tables ==
            IF StartsWith(query_upper, <<"INSERT", SP, "INTO">>)
                THEN FirstTable(SubSeq(query_upper, 4, Len(query_upper)))
            ELSE IF StartsWith(query_upper, <<"UPDATE">>)
                THEN FirstTable(SubSeq(query_upper, 2, Len(query_upper)))
            ELSE IF StartsWith(query_upper, <<"DELETE", SP, "FROM">>)
                THEN FirstTable(SubSeq(query_upper, 4, Len(query_upper)))
            ELSE {}
    IN  IF StartsWithAny(query_upper, {<<"BEGIN">>, <<"COMMIT">>, <<"ROLLBACK">>})
        THEN {}
        ELSE from_tables \cup JoinTables(query_upper, 1) \cup dml_tables

\* ---------------------------------------------------------------- the state
VARIABLES
    pool,               \* the lines the inputs of this run are made of
    calls_left,         \* parse_file calls the caller still makes
    pc,                 \* "idle", "sample", "loop", "done": position in parse_file
    lines,              \* parse_file's local "lines"
    i,                  \* lines of "lines" already taken by the for loop
    queries,            \* self.queries
    log_stats,          \* self.log_stats
    is_collecting_sql,  \* self.is_collecting_sql
    sql_parts,          \* self.sql_parts
    current_timestamp,  \* self.current_timestamp
    was_collecting,     \* history: is_collecting_sql as the previous call left it
    pattern_input,      \* the argument of _generate_query_pattern
    pattern,            \* the value _generate_query_pattern returned
    batch,              \* the argument "queries" of analyze_queries
    recommendations,    \* IndexRecommender.recommendations
    pattern_list,       \* the value get_query_patterns returned
    local_zone          \* the time zone of the process, read by datetime.timestamp()

\* The variables of the callers of the pattern normalizer and of the recommender.
client_vars == <<pattern_input, pattern, batch, recommendations, pattern_list, local_zone>>

\* The variables of a parse_file run.
parser_vars == <<pool, calls_left, lines, i, queries, log_stats,
                 is_collecting_sql, sql_parts, current_timestamp, was_collecting>>

vars == <<pool, calls_left, pc, lines, i, queries, log_stats,
          is_collecting_sql, sql_parts, current_timestamp, was_collecting,
          pattern_input, pattern, batch, recommendations, pattern_list, local_zone>>

\* The fields of the parser object, as one record.
Self == [queries |-> queries, log_stats |-> log_stats,
         is_collecting_sql |-> is_collecting_sql, sql_parts |-> sql_parts,
         current_timestamp |-> current_timestamp]

\* The values __init__ and the head of parse_file assign.
FreshStats == [total_lines |-> 0, parsed_queries |-> 0, errors |-> 0,
               start_time |-> None, end_time |-> None]
FreshSelf == [queries |-> <<>>, log_stats |-> FreshStats,
              is_collecting_sql |-> FALSE, sql_parts |-> <<>>,
              current_timestamp |-> None]

\* models.query.Query as parse_file builds it.  The "database" keyword is not
\* a field of the model and is dropped by it.
Query(query_id, query_text, execution_time_ms, timestamp) ==
    [query_id |-> query_id, query_text |-> query_text,
     execution_time_ms |-> execution_time_ms, timestamp |-> timestamp,
     tables_accessed |-> ExtractTables(query_text)]

\* f"sqlalchemy_{timestamp.timestamp()}" and f"{pid}_{timestamp.timestamp()}"
QueryId(prefix, timestamp) == [prefix |-> prefix, ts |-> PosixTime(local_zone, timestamp)]

\* Mutant of AddQuery: the counter is not incremented.
AddQueryNoCount(st, query_id, query_text, execution_time_ms, timestamp) ==
    [st EXCEPT !.queries = Append(@, Query(query_id, query_text, execution_time_ms, timestamp))]

\* PostgreSQLLogParser._add_query
AddQuery(st, query_id, query_text, execution_time_ms, timestamp) ==
    [st EXCEPT !.queries = Append(@, Query(query_id, query_text, execution_time_ms, timestamp)),
               !.log_stats.parsed_queries = @ + 1]

\* Mutant of UpdateTimeStats: only the first timestamp is recorded.
UpdateTimeStatsFirstOnly(st, timestamp) ==
    IF st.log_stats.start_time = None
    THEN [st EXCEPT !.log_stats.start_time = timestamp, !.log_stats.end_time = timestamp]
    ELSE st

\* PostgreSQLLogParser._update_time_stats
UpdateTimeStats(st, timestamp) ==
    LET s1 == IF st.log_stats.start_time = None \/ timestamp < st.log_stats.start_time
              THEN [st EXCEPT !.log_stats.start_time = timestamp] ELSE st
    IN  IF s1.log_stats.end_time = None \/ timestamp > s1.log_stats.end_time
        THEN [s1 EXCEPT !.log_stats.end_time = timestamp] ELSE s1

\* Mutant of CountError: the error is counted twice.
CountErrorTwice(st) == [st EXCEPT !.log_stats.errors = @ + 2]

\* except Exception: self.log_stats['errors'] += 1; continue
CountError(st) == [st EXCEPT !.log_stats.errors = @ + 1]

\* The branch "if pg_match:" of the loop body.
ProcessPg(st, line) ==
    LET g == PgGroups(line)
        timestamp == PgStrptime(g.timestamp_str)
        s1 == UpdateTimeStats(st, timestamp)
        d == DurationGroups(g.message)
    IN  IF timestamp = None THEN CountError(st)
        ELSE IF DurationPos(g.message) # 0
             THEN AddQuery(s1, QueryId(g.pid, timestamp), d.query_text,
                           DecimalMicros(d.duration_ms), timestamp)
             ELSE s1

\* complete_query = ' '.join(self.sql_parts); self._add_query(...) with the
\* default execution time and the timestamp of the collection.
AddCollected(st) ==
    AddQuery(st, QueryId("sqlalchemy", st.current_timestamp), Join(st.sql_parts),
             NominalMicros, st.current_timestamp)

\* Mutant of ResetCollection: the fragments are kept.
ResetCollectionKeepParts(st) == [st EXCEPT !.is_collecting_sql = FALSE]

\* Mutant of ResetCollection: the collection stays open.
ResetCollectionSkipped(st) == st

\* self.is_collecting_sql = False; self.sql_parts = []
ResetCollection(st) == [st EXCEPT !.is_collecting_sql = FALSE, !.sql_parts = <<>>]

\* Mutant of FlushGuard: the buffer is flushed before every transaction line.
FlushGuardAlways(st) == TRUE

\* The guard "if self.is_collecting_sql and self.sql_parts:" before a
\* transaction statement.
FlushGuard(st) == st.is_collecting_sql /\ st.sql_parts # <<>>

StatementStarts == {<<"SELECT">>, <<"INSERT">>, <<"UPDATE">>, <<"DELETE">>}
\* Mutant of TransactionStarts: ROLLBACK is not a transaction statement.
TransactionStartsNoRollback == {<<"BEGIN">>, <<"COMMIT">>}
TransactionStarts == {<<"BEGIN">>, <<"COMMIT">>, <<"ROLLBACK">>}

\* Mutant of ProcessSa: a statement-start line first emits the open
\* collection.
ProcessSaFlushOnStart(st, line) ==
    LET g == SaGroups(line)
        message == g.message
        timestamp == SaStrptime(g.timestamp_str)
        s1 == UpdateTimeStats(st, timestamp)
        flushed == IF FlushGuard(s1) THEN ResetCollection(AddCollected(s1)) ELSE s1
    IN  IF timestamp = None THEN CountError(st)
        ELSE IF StartsWithAny(message, StatementStarts)
             THEN [flushed EXCEPT !.is_collecting_sql = TRUE, !.sql_parts = <<message>>,
                                  !.current_timestamp = timestamp]
        ELSE IF StartsWithAny(message, TransactionStarts)
             THEN AddQuery(flushed, QueryId("sqlalchemy", timestamp), message,
                           NominalMicros, timestamp)
        ELSE IF StartsWith(message, <<"[">>) /\ s1.is_collecting_sql
             THEN ResetCollection(IF s1.sql_parts # <<>> THEN AddCollected(s1) ELSE s1)
        ELSE s1

\* The branch "elif sa_match:" of the loop body.
ProcessSa(st, line) ==
    LET g == SaGroups(line)
        message == g.message
        timestamp == SaStrptime(g.timestamp_str)
        s1 == UpdateTimeStats(st, timestamp)
        flushed == IF FlushGuard(s1) THEN ResetCollection(AddCollected(s1)) ELSE s1
    IN  IF timestamp = None THEN CountError(st)
        ELSE IF StartsWithAny(message, StatementStarts)
             THEN [s1 EXCEPT !.is_collecting_sql = TRUE, !.sql_parts = <<message>>,
                             !.current_timestamp = timestamp]
        ELSE IF StartsWithAny(message, TransactionStarts)
             THEN AddQuery(flushed, QueryId("sqlalchemy", timestamp), message,
                           NominalMicros, timestamp)
        ELSE IF StartsWith(message, <<"[">>) /\ s1.is_collecting_sql
             THEN ResetCollection(IF s1.sql_parts # <<>> THEN AddCollected(s1) ELSE s1)
        ELSE s1

FragmentClauses == {<<"FROM">>, <<"WHERE">>, <<"GROUP", SP, "BY">>, <<"HAVING">>,
                    <<"ORDER", SP, "BY">>, <<"LIMIT">>, <<"JOIN">>, <<"UNION">>}

\* "did not match any log pattern:" in line and ":" in line
HasMarker(line) == \E k \in 1..Len(line) : line[k] = MARKER

\* Mutant of ProcessOther: a fragment is put before the parts collected.
ProcessOtherPrepends(st, line) ==
    LET parts == SplitColon(line)
    IN  IF ~st.is_collecting_sql THEN st
        ELSE IF HasMarker(line) /\ Len(parts) > 1
             THEN [st EXCEPT !.sql_parts = <<Strip(parts[2])>> \o @]
        ELSE IF StartsWithAny(Upper(Strip(line)), FragmentClauses)
             THEN [st EXCEPT !.sql_parts = <<Strip(line)>> \o @]
        ELSE st

\* The final "else:" of the loop body: a line that matched neither pattern.
ProcessOther(st, line) ==
    LET parts == SplitColon(line)
    IN  IF ~st.is_collecting_sql THEN st
        ELSE IF HasMarker(line) /\ Len(parts) > 1
             THEN [st EXCEPT !.sql_parts = Append(@, Strip(parts[2]))]
        ELSE IF StartsWithAny(Upper(Strip(line)), FragmentClauses)
             THEN [st EXCEPT !.sql_parts = Append(@, Strip(line))]
        ELSE st

\* if not line.strip(): continue
IsBlank(line) == Strip(line) = <<>>

\* Mutant of CountLine: the line is counted twice.
CountLineTwice(st) == [st EXCEPT !.log_stats.total_lines = @ + 2]

\* self.log_stats['total_lines'] += 1
CountLine(st) == [st EXCEPT !.log_stats.total_lines = @ + 1]

\* Mutant of ProcessLine: a native line also closes the open collection.
ProcessLineNativeCloses(st, line) ==
    LET s1 == CountLine(st)
    IN  IF IsBlank(line) THEN st
        ELSE IF PgMatch(line) THEN ResetCollection(ProcessPg(s1, line))
        ELSE IF SaMatch(line) THEN ProcessSa(s1, line)
        ELSE ProcessOther(s1, line)

\* One iteration of "for i, line in enumerate(lines)".
ProcessLine(st, line) ==
    LET s1 == CountLine(st)
    IN  IF IsBlank(line) THEN st
        ELSE IF PgMatch(line) THEN ProcessPg(s1, line)
        ELSE IF SaMatch(line) THEN ProcessSa(s1, line)
        ELSE ProcessOther(s1, line)

\* Mutant of FinalFlush: an open collection is dropped at the end of input.
FinalFlushDropped(st) == st

\* "Process any remaining incomplete SQL statement", after the loop.
FinalFlush(st) ==
    IF st.is_collecting_sql /\ st.sql_parts # <<>> /\ st.current_timestamp # None
    THEN AddCollected(st) ELSE st

\* ------------------------------------------------------------- the inputs
SaStamp(t) == CASE t = 1 -> "2025-05-09 09:51:01,000" [] t = 2 -> "2025-05-09 09:51:02,000"
                [] t = 3 -> "2025-05-09 09:51:03,000" [] t = 4 -> "2026-03-08 02:30:00,000"
                [] t = 5 -> "2026-03-08 03:30:00,000" [] OTHER -> "2025-13-09 09:51:01,000"
PgStamp(t) == CASE t = 1 -> "2025-05-09 09:51:01.000" [] t = 2 -> "2025-05-09 09:51:02.000"
                [] t = 3 -> "2025-05-09 09:51:03.000" [] OTHER -> "2025-13-09 09:51:01.000"

\* "<stamp> - <LEVEL> - <message>"
SaLine(stamp, level, message) == <<stamp, SP, "-", SP, level, SP, "-", SP>> \o message
\* "<stamp> UTC [123] mydb [abc1] LOG:  <message>"
PgLine(stamp, message) ==
    <<stamp, SP, "UTC", SP, "[123]", SP, "mydb", SP, "[abc1]", SP, "LOG:", SP, SP>> \o message
\* "Matched SQLAlchemy log line: <stamp> | <message>"
Matched(stamp, message) == <<MATCHED, SP, stamp, SP, "|", SP>> \o message

MsgSelect == <<"SELECT", SP, "a">>
MsgBegin == <<"BEGIN", SP, "(implicit)">>
MsgCommit == <<"COMMIT">>
MsgRollback == <<"ROLLBACK">>
MsgCached == <<"[cached since 22.05s ago]", SP, "{'p': 1}">>
FragFrom == <<"FROM", SP, "t">>
FragWhere == <<"WHERE", SP, "x">>
FragLimit == <<"LIMIT", SP, "635">>
MsgDuration == <<"duration:", SP, "12.345", SP, "ms", SP, SP, "statement:", SP,
                 "SELECT", SP, "x", SP, "FROM", SP, "u">>
MsgExecute == <<"duration:", SP, "0.250", SP, "ms", SP, SP, "execute <unnamed>:", SP,
                "UPDATE", SP, "t">>

LSelect == SaLine(SaStamp(1), "INFO", MsgSelect)
LSelect2 == SaLine(SaStamp(2), "INFO", <<"SELECT", SP, "b">>)
LBegin == SaLine(SaStamp(1), "INFO", MsgBegin)
LCommit == SaLine(SaStamp(2), "INFO", MsgCommit)
LRollback == SaLine(SaStamp(3), "INFO", MsgRollback)
LCached == SaLine(SaStamp(3), "INFO", MsgCached)
LSaBadStamp == SaLine(SaStamp(0), "INFO", MsgCommit)
\* a continuation line as the logger writes it, with stamp and level
LSaMarker == SaLine(SaStamp(2), "DEBUG", <<"Line", SP, "635", SP, MARKER, SP>> \o FragFrom)
\* continuation lines without a stamp
LRawMarker == <<"Line", SP, "635", SP, MARKER, SP>> \o FragWhere
LRawClause == <<SP>> \o FragLimit \o <<SP>>
LRawOther == <<"connection", SP, "received">>
LBlank == <<SP, SP>>
LEmpty == <<>>
LPgDuration == PgLine(PgStamp(2), MsgDuration)
LPgExecute == PgLine(PgStamp(1), MsgExecute)
LPgOther == PgLine(PgStamp(3), <<"connection", SP, "received">>)
LPgBadStamp == PgLine(PgStamp(0), MsgDuration)
LPgCommaStamp == PgLine(SaStamp(1), MsgDuration)
LMatchedSelect == SaLine(SaStamp(1), "INFO", Matched(SaStamp(1), MsgSelect))
LMatchedCached == SaLine(SaStamp(3), "INFO", Matched(SaStamp(3), MsgCached))
LMatchedCommit == SaLine(SaStamp(2), "INFO", Matched(SaStamp(2), MsgCommit))
LMatchedBegin == SaLine(SaStamp(1), "INFO", Matched(SaStamp(1), MsgBegin))

PoolOrm == {LSelect, LSaMarker, LRawMarker, LCached, LCommit, LPgDuration}
PoolTxn == {LBegin, LCommit, LRollback, LSelect, LCached, LSaBadStamp}
PoolMatched == {LMatchedSelect, LSaMarker, LMatchedCached, LMatchedCommit, LMatchedBegin}
PoolNative == {LPgDuration, LPgExecute, LPgOther, LPgBadStamp, LSelect2}
PoolStats == {LPgExecute, LPgOther, LCommit, LPgCommaStamp, LBlank, LEmpty}
PoolReuse == {LSelect, LRawClause, LCommit, LPgDuration}

\* All sequences over S of length at most n.
SeqsUpTo(S, n) == UNION {[1..k -> S] : k \in 0..n}

\* random.sample(population, k): k elements at distinct positions, any order.
RandomSample(population, k) ==
    {[j \in 1..k |-> population[f[j]]] :
        f \in {g \in [1..k -> 1..Len(population)] :
                  \A a, b \in 1..k : a # b => g[a] # g[b]}}

\* ------------------------------------------------------------ the actions
SetSelf(st) ==
    /\ queries' = st.queries
    /\ log_stats' = st.log_stats
    /\ is_collecting_sql' = st.is_collecting_sql
    /\ sql_parts' = st.sql_parts
    /\ current_timestamp' = st.current_timestamp

\* Mutant of ResetAtCall: the collection state is not reset.
ResetAtCallKeepCollection(st) ==
    [FreshSelf EXCEPT !.is_collecting_sql = st.is_collecting_sql,
                      !.sql_parts = st.sql_parts,
                      !.current_timestamp = st.current_timestamp]

\* The assignments at the head of parse_file.
ResetAtCall(st) == FreshSelf

\* parse_file up to "lines = content.splitlines()".
ReadInput(content) ==
    /\ pc \in {"idle", "done"}
    /\ calls_left > 0
    /\ calls_left' = calls_left - 1
    /\ SetSelf(ResetAtCall(Self))
    /\ lines' = content
    /\ i' = 0
    /\ pc' = "sample"
    /\ was_collecting' = is_collecting_sql
    /\ UNCHANGED <<pool, client_vars>>

\* "if sample_size and sample_size < len(lines): lines = random.sample(...)";
\* sample_size 0 stands for None and for 0.
Sample(sample_size) ==
    /\ pc = "sample"
    /\ lines' \in IF sample_size # 0 /\ sample_size < Len(lines)
                  THEN RandomSample(lines, sample_size) ELSE {lines}
    /\ pc' = "loop"
    /\ UNCHANGED <<pool, calls_left, i, queries, log_stats, is_collecting_sql,
                   sql_parts, current_timestamp, was_collecting, client_vars>>

\* One iteration of the for loop.
LoopStep ==
    /\ pc = "loop"
    /\ i < Len(lines)
    /\ SetSelf(ProcessLine(Self, lines[i + 1]))
    /\ i' = i + 1
    /\ UNCHANGED <<pool, calls_left, pc, lines, was_collecting, client_vars>>

\* The end of the loop: the final flush and the return.
Finish ==
    /\ pc = "loop"
    /\ i = Len(lines)
    /\ SetSelf(FinalFlush(Self))
    /\ pc' = "done"
    /\ UNCHANGED <<pool, calls_left, lines, i, was_collecting, client_vars>>

Next ==
    \/ \E content \in SeqsUpTo(pool, MaxLines) : ReadInput(content)
    \/ \E sample_size \in 0..MaxSample : Sample(sample_size)
    \/ LoopStep
    \/ Finish

\* The parser after __init__, for a caller that makes "calls" calls with
\* inputs made of the lines of "p".
ParserIdle(p, calls) ==
    /\ pool = p
    /\ calls_left = calls
    /\ lines = <<>>
    /\ i = 0
    /\ queries = <<>>
    /\ log_stats = FreshStats
    /\ is_collecting_sql = FALSE
    /\ sql_parts = <<>>
    /\ current_timestamp = None
    /\ was_collecting = FALSE

\* The state after __init__, for a caller of parse_file only.
InitWith(p, calls) ==
    /\ ParserIdle(p, calls)
    /\ pc = "idle"
    /\ pattern_input = <<>>
    /\ pattern = <<>>
    /\ batch = <<>>
    /\ recommendations = <<>>
    /\ pattern_list = <<>>
    /\ local_zone \in Zones

Init == InitWith(PoolOrm, 1)
Spec == Init /\ [][Next]_vars

InitTxn == InitWith(PoolTxn, 1)
SpecTxn == InitTxn /\ [][Next]_vars

InitMatched == InitWith(PoolMatched, 1)
SpecMatched == InitMatched /\ [][Next]_vars

InitNative == InitWith(PoolNative, 1)
SpecNative == InitNative /\ [][Next]_vars

InitStats == InitWith(PoolStats, 1)
SpecStats == InitStats /\ [][Next]_vars

InitReuse == InitWith(PoolReuse, 2)
SpecReuse == InitReuse /\ [][Next]_vars

\* ------------------------------------------------- vocabulary of the claims
Last(seq) == seq[Len(seq)]

\* A line of the ORM dialect: it matches the ORM line pattern and its
\* timestamp parses.
IsOrmLine(line) == ~PgMatch(line) /\ SaMatch(line) /\ SaStrptime(line[1]) # None
OrmMessage(line) == SubSeq(line, 9, Len(line))
OrmTime(line) == StampTime(line[1])

IsStartLine(line) == IsOrmLine(line) /\ StartsWithAny(OrmMessage(line), StatementStarts)
IsTxnLine(line) == IsOrmLine(line) /\ OrmMessage(line) \in {MsgBegin, MsgCommit, MsgRollback}
IsTerminalLine(line) == IsOrmLine(line) /\ StartsWith(OrmMessage(line), <<"[">>)

\* A line that carries the marker, and the fragment that follows the marker.
CarriesMarker(line) == \E k \in 1..Len(line) : line[k] = MARKER
MarkerFragment(line) ==
    LET k == CHOOSE j \in 1..Len(line) : line[j] = MARKER
    IN  Strip(SubSeq(line, k + 1, Len(line)))

\* The line the loop takes next.
AtLine == pc = "loop" /\ i < Len(lines)
NextLine == lines[i + 1]

\* ------------------------------------------------------------------- C1
\* C1: an input made of one ORM statement-start line (SELECT), k >= 1
\* continuation lines carrying the marker, and one terminal '[' line yields
\* exactly one Query, whose query_text is the start message followed by the
\* k fragments in encounter order, joined by single blanks.
IsMultilineInput(ls) ==
    /\ Len(ls) >= 3
    /\ IsOrmLine(ls[1]) /\ StartsWith(OrmMessage(ls[1]), <<"SELECT">>)
    /\ \A k \in 2..(Len(ls) - 1) : CarriesMarker(ls[k])
    /\ IsTerminalLine(ls[Len(ls)])

C1_Expected(ls) ==
    Join(<<OrmMessage(ls[1])>> \o [k \in 1..(Len(ls) - 2) |-> MarkerFragment(ls[k + 1])])

C1_OneCombinedQuery ==
    (pc = "done" /\ IsMultilineInput(lines)) =>
        (Len(queries) = 1 /\ queries[1].query_text = C1_Expected(lines))

\* ------------------------------------------------------------------- C2
\* C2: in the format of the parser tests, where each message is prefixed with
\* "Matched SQLAlchemy log line: <stamp> | ", lines are classified by the
\* text after the '|': a prefixed SELECT line, marker continuation lines and
\* a prefixed '[cached since' line yield exactly one combined Query that
\* contains the fragments, and every prefixed BEGIN/COMMIT/ROLLBACK line
\* yields a transaction Query.
IsPrefixed(line) == IsOrmLine(line) /\ Len(line) >= 15 /\ line[9] = MATCHED /\ line[13] = "|"
AfterBar(line) == SubSeq(line, 15, Len(line))

IsPrefixedMultiline(ls) ==
    /\ Len(ls) >= 3
    /\ IsPrefixed(ls[1]) /\ StartsWith(AfterBar(ls[1]), <<"SELECT">>)
    /\ \A k \in 2..(Len(ls) - 1) : CarriesMarker(ls[k])
    /\ IsPrefixed(ls[Len(ls)]) /\ StartsWith(AfterBar(ls[Len(ls)]), <<"[">>)

PrefixedTxnLines(ls) ==
    {k \in 1..Len(ls) : IsPrefixed(ls[k]) /\ StartsWithAny(AfterBar(ls[k]), TransactionStarts)}

C2_PrefixedFormat ==
    pc = "done" =>
        /\ IsPrefixedMultiline(lines) =>
              /\ Len(queries) = 1
              /\ \A k \in 2..(Len(lines) - 1) :
                    Find(queries[1].query_text, MarkerFragment(lines[k]), 1) # 0
        /\ \A k \in PrefixedTxnLines(lines) :
              \E n \in 1..Len(queries) :
                  StartsWithAny(queries[n].query_text, TransactionStarts)

\* ------------------------------------------------------------------- C3
\* C3: an ORM line whose message is 'BEGIN (implicit)', 'COMMIT' or
\* 'ROLLBACK', processed while no collection is open, appends exactly one
\* Query, with that message as query_text, 0.1 ms and no tables; an input of
\* n such lines yields n Queries.
C3_Step ==
    (AtLine /\ IsTxnLine(NextLine) /\ ~is_collecting_sql) =>
        /\ Len(queries') = Len(queries) + 1
        /\ SubSeq(queries', 1, Len(queries)) = queries
        /\ Last(queries').query_text = OrmMessage(NextLine)
        /\ Last(queries').execution_time_ms = NominalMicros
        /\ Last(queries').tables_accessed = {}

C3_Count ==
    (pc = "done" /\ \A k \in 1..Len(lines) : IsTxnLine(lines[k])) =>
        Len(queries) = Len(lines)

C3_TransactionLines == [][C3_Step]_vars /\ []C3_Count

C3_Witness ==
    /\ pc = "done"
    /\ lines = <<LBegin, LCommit, LRollback>>
    /\ Len(queries) = 3
    /\ queries[3].query_text = MsgRollback

\* ------------------------------------------------------------------- C4
\* C4: when the input ends with a collection open (no terminal and no
\* transaction line after the last statement-start line), the end of the loop
\* appends exactly one Query, whose query_text is the buffered fragments
\* joined by single blanks, and it is the last Query returned.
StartLines(ls) == {k \in 1..Len(ls) : IsStartLine(ls[k])}
LastStart(ls) == CHOOSE k \in StartLines(ls) : \A j \in StartLines(ls) : j <= k
OpenAtEnd(ls) ==
    /\ StartLines(ls) # {}
    /\ \A k \in (LastStart(ls) + 1)..Len(ls) :
          /\ ~IsTerminalLine(ls[k])
          /\ ~(IsOrmLine(ls[k]) /\ StartsWithAny(OrmMessage(ls[k]), TransactionStarts))

C4_Step ==
    (pc = "loop" /\ i = Len(lines) /\ OpenAtEnd(lines)) =>
        /\ sql_parts # <<>>
        /\ sql_parts[1] = OrmMessage(lines[LastStart(lines)])
        /\ pc' = "done"
        /\ Len(queries') = Len(queries) + 1
        /\ SubSeq(queries', 1, Len(queries)) = queries
        /\ Last(queries').query_text = Join(sql_parts)
        /\ Last(queries').timestamp = OrmTime(lines[LastStart(lines)])

C4_FlushAtEnd == [][C4_Step]_vars

C4_Witness ==
    /\ pc = "done"
    /\ lines = <<LCommit, LSelect, LRawMarker>>
    /\ Len(queries) = 2
    /\ Last(queries).query_text = MsgSelect \o <<SP>> \o FragWhere

\* ------------------------------------------------------------------- C5
\* C5: a well-formed native line "... duration: D ms  statement: S" appends
\* exactly one Query when it is processed, with execution_time_ms D and
\* query_text S.
NativeStatements == {<<"SELECT", SP, "x", SP, "FROM", SP, "u">>, <<"UPDATE", SP, "t">>}
NativeLine(t, D, S) ==
    PgLine(PgStamp(t), <<"duration:", SP, D, SP, "ms", SP, SP, "statement:", SP>> \o S)

C5_Step ==
    \A t \in 1..3, D \in DecimalAtoms, S \in NativeStatements :
        (AtLine /\ NextLine = NativeLine(t, D, S)) =>
            /\ Len(queries') = Len(queries) + 1
            /\ SubSeq(queries', 1, Len(queries)) = queries
            /\ Last(queries').execution_time_ms = DecimalMicros(D)
            /\ Last(queries').query_text = S

RECURSIVE FreshRun(_, _)
FreshRun(ls, n) == IF n = 0 THEN FreshSelf ELSE ProcessLine(FreshRun(ls, n - 1), ls[n])

C6_NoLeakAcrossCalls ==
    (calls_left = 0 /\ pc = "done") =>
        LET fresh == FinalFlush(FreshRun(lines, Len(lines)))
        IN  /\ queries = fresh.queries
            /\ log_stats = fresh.log_stats
            /\ is_collecting_sql = fresh.is_collecting_sql
            /\ sql_parts = fresh.sql_parts
            /\ current_timestamp = fresh.current_timestamp

C6_Witness ==
    /\ calls_left = 0
    /\ pc = "done"
    /\ was_collecting
    /\ lines = <<LRawClause, LCommit>>
    /\ Len(queries) = 1
    /\ queries[1].query_text = MsgCommit

\* ------------------------------------------------------------------- C7
\* C7: every emitted Query, whatever rule emitted it, has a non-empty
\* query_text.
C7_NonEmptyText == \A k \in 1..Len(queries) : queries[k].query_text # <<>>

C7_Witness ==
    /\ pc = "done"
    /\ lines = <<LSelect, LCommit, LPgDuration, LSelect>>
    /\ Len(queries) = 4

\* ------------------------------------------------------------------- C8
\* C8 as stated: at return total_lines is the number of lines handed to the
\* loop, blank lines included.
C8_AllLinesCounted == pc = "done" => log_stats.total_lines = Len(lines)

\* C8 as amended: after each iteration and at return, total_lines is the
\* number of lines taken by the loop that hold a character other than
\* white space, each counted once.
NonBlank(line) == \E k \in 1..Len(line) : line[k] # SP
C8_NonBlankLinesCounted ==
    pc \in {"loop", "done"} =>
        log_stats.total_lines = Cardinality({k \in 1..i : NonBlank(lines[k])})

C8_Witness ==
    /\ pc = "done"
    /\ lines = <<LBlank, LCommit, LEmpty, LPgOther>>
    /\ log_stats.total_lines = 2

\* ------------------------------------------------------------------- C9
\* C9: after every processed line and at return, parsed_queries equals the
\* number of Query records in the query list.
C9_ParsedQueriesCount == log_stats.parsed_queries = Len(queries)

C9_Witness ==
    /\ pc = "done"
    /\ lines = <<LSelect, LRawMarker, LCached, LCommit>>
    /\ log_stats.parsed_queries = 2

\* ------------------------------------------------------------------ C10
\* C10: start_time and end_time are the minimum and the maximum of the
\* timestamps of the lines taken so far that matched a line pattern and whose
\* timestamp parsed, whether or not the line produced a Query; both are None
\* exactly when there is no such line.
ParsedTime(line) ==
    IF PgMatch(line) THEN (IF line[1] \in PgStampAtoms THEN StampTime(line[1]) ELSE None)
    ELSE IF SaMatch(line) THEN StampTime(line[1])
    ELSE None
TimesSeen(n) == {ParsedTime(lines[k]) : k \in 1..n} \ {None}

C10_TimeRange ==
    pc \in {"loop", "done"} =>
        LET T == TimesSeen(i)
        IN  IF T = {}
            THEN log_stats.start_time = None /\ log_stats.end_time = None
            ELSE /\ log_stats.start_time \in T /\ \A t \in T : log_stats.start_time <= t
                 /\ log_stats.end_time \in T /\ \A t \in T : log_stats.end_time >= t

C10_Witness ==
    /\ pc = "done"
    /\ lines = <<LCommit, LPgOther, LPgCommaStamp, LPgExecute>>
    /\ log_stats.start_time = 1
    /\ log_stats.end_time = 3
    /\ Len(queries) = 2

\* ------------------------------------------------- the pattern normalizer
QUOTE == "'"
\* Atoms made of digits only.
DigitAtoms == {"635", "1"}
\* Atoms of the form 8-4-4-4-12 lower-case hexadecimal characters, none of
\* whose groups is made of digits only.
UuidAtoms == {"aaaaaaaa-bbbb-cccc-dddd-eeeeeeeeeeee"}
\* Atoms whose first and last characters are matched by \w : no \b lies
\* between two of them when they are adjacent.
WordCharAtoms == WordAtoms \cup DigitAtoms \cup UuidAtoms \cup {"N", "S", "UUID"}

\* The position after the run of digit atoms that starts at k.
RECURSIVE DigitRunEnd(_, _)
DigitRunEnd(s, k) ==
    IF k <= Len(s) /\ s[k] \in DigitAtoms THEN DigitRunEnd(s, k + 1) ELSE k

\* Mutant of NumberPlaceholder: a positional placeholder.
NumberPlaceholderPositional == <<"$", "1">>

\* The replacement text of the first substitution.
NumberPlaceholder == <<"N">>

\* re.sub(r'\b\d+\b', 'N', s), from position k on.
RECURSIVE SubNumbers(_, _)
SubNumbers(s, k) ==
    IF k > Len(s) THEN <<>>
    ELSE IF s[k] \in DigitAtoms /\ (k = 1 \/ s[k - 1] \notin WordCharAtoms)
         THEN LET e == DigitRunEnd(s, k)
              IN  IF e > Len(s) \/ s[e] \notin WordCharAtoms
                  THEN NumberPlaceholder \o SubNumbers(s, e)
                  ELSE SubSeq(s, k, e - 1) \o SubNumbers(s, e)
         ELSE <<s[k]>> \o SubNumbers(s, k + 1)

\* re.sub(r"'[^']*'", "'S'", s), from position k on.
RECURSIVE SubStrings(_, _)
SubStrings(s, k) ==
    IF k > Len(s) THEN <<>>
    ELSE IF s[k] = QUOTE /\ Find(s, <<QUOTE>>, k + 1) # 0
         THEN <<QUOTE, "S", QUOTE>> \o SubStrings(s, Find(s, <<QUOTE>>, k + 1) + 1)
         ELSE <<s[k]>> \o SubStrings(s, k + 1)

\* re.sub(r"'[0-9a-f]{8}-...-[0-9a-f]{12}'", "'UUID'", s), from position k on.
RECURSIVE SubUuids(_, _)
SubUuids(s, k) ==
    IF k > Len(s) THEN <<>>
    ELSE IF k + 2 <= Len(s) /\ s[k] = QUOTE /\ s[k + 1] \in UuidAtoms /\ s[k + 2] = QUOTE
         THEN <<QUOTE, "UUID", QUOTE>> \o SubUuids(s, k + 3)
         ELSE <<s[k]>> \o SubUuids(s, k + 1)

\* PostgreSQLLogParser._generate_query_pattern
GenerateQueryPattern(text) == SubUuids(SubStrings(SubNumbers(text, 1), 1), 1)

\* The atoms the short query texts are made of.
PatternAtoms == {QUOTE, "635", "a", SP} \cup UuidAtoms
\* Longer query texts: a statement with a number and a string literal, and
\* UUID text standing between two string literals.
MsgLiterals == <<"SELECT", SP, "a", SP, "FROM", SP, "t", SP, "WHERE", SP, "x", SP,
                 "=", SP, "635", SP, "AND", SP, "b", SP, "=", SP, QUOTE, "a", QUOTE>>
MsgUuidBetween == <<QUOTE, "a", QUOTE, "aaaaaaaa-bbbb-cccc-dddd-eeeeeeeeeeee",
                    QUOTE, "b", QUOTE>>
PatternTexts == SeqsUpTo(PatternAtoms, MaxText) \cup {MsgLiterals, MsgUuidBetween}

\* A call of _generate_query_pattern on the query text.
GeneratePattern ==
    /\ pc = "normalize"
    /\ pattern' = GenerateQueryPattern(pattern_input)
    /\ pc' = "renormalize"
    /\ UNCHANGED <<parser_vars, pattern_input, batch, recommendations, pattern_list, local_zone>>

\* A call of _generate_query_pattern on the pattern the first call returned.
RegeneratePattern ==
    /\ pc = "renormalize"
    /\ pattern' = GenerateQueryPattern(pattern)
    /\ pc' = "normalized"
    /\ UNCHANGED <<parser_vars, pattern_input, batch, recommendations, pattern_list, local_zone>>

NextPattern ==
    \/ GeneratePattern
    \/ RegeneratePattern

InitPattern ==
    /\ ParserIdle({}, 0)
    /\ pc = "normalize"
    /\ pattern_input \in PatternTexts
    /\ pattern = <<>>
    /\ batch = <<>>
    /\ recommendations = <<>>
    /\ pattern_list = <<>>
    /\ local_zone = "UTC"

SpecPattern == InitPattern /\ [][NextPattern]_vars

\* C11: the pattern normalizer is idempotent: normalizing a pattern it
\* returned gives that pattern again.
C11_Idempotent == [][pc = "renormalize" => pattern' = pattern]_vars

\* A text with a number and a string literal has been normalized twice.
C11_Witness ==
    /\ pc = "normalized"
    /\ pattern_input = MsgLiterals
    /\ pattern # pattern_input
    /\ \E k \in 1..Len(pattern) : pattern[k] = "N"
    /\ \E k \in 1..Len(pattern) : pattern[k] = "S"

\* -------------------------------------------------- the index recommender
\* str.split(sep), for a separator given as atoms.
RECURSIVE Split(_, _)
Split(s, sep) ==
    LET k == Find(s, sep, 1)
    IN  IF k = 0 THEN <<s>>
        ELSE <<SubSeq(s, 1, k - 1)>> \o Split(SubSeq(s, k + Len(sep), Len(s)), sep)

\* "col = parts[0].strip(); if '.' in col: col = col.split('.')[-1]"
ColumnOf(part) ==
    LET pieces == Split(Strip(part), <<".">>)
    IN  pieces[Len(pieces)]

WhereStopClauses == <<<<"GROUP", SP, "BY">>, <<"HAVING">>, <<"ORDER", SP, "BY">>,
                      <<"LIMIT">>, <<"OFFSET">>>>

\* The loop that truncates where_clause at each clause found, from clause
\* number n on.
RECURSIVE TruncateWhere(_, _)
TruncateWhere(where_clause, n) ==
    IF n > Len(WhereStopClauses) THEN where_clause
    ELSE LET pos == Find(where_clause, WhereStopClauses[n], 1)
         IN  TruncateWhere(IF pos # 0 THEN SubSeq(where_clause, 1, pos - 1)
                           ELSE where_clause, n + 1)

\* The operators of the range loop, in its order; an operator of two
\* characters is two atoms.
RangeOps == <<<<">">>, <<"<">>, <<">", "=">>, <<"<", "=">>>>

\* The column appended for "parts = condition.split('=')".
EqualityColumns(condition) ==
    LET parts == Split(condition, <<"=">>)
    IN  IF Len(parts) = 2 THEN <<ColumnOf(parts[1])>> ELSE <<>>

\* The columns appended by "for op in ['>', '<', '>=', '<=']", from operator
\* number n on.
RECURSIVE RangeColumns(_, _)
RangeColumns(condition, n) ==
    IF n > Len(RangeOps) THEN <<>>
    ELSE LET parts == Split(condition, RangeOps[n])
         IN  (IF Find(condition, RangeOps[n], 1) # 0 /\ Len(parts) = 2
              THEN <<ColumnOf(parts[1])>> ELSE <<>>) \o RangeColumns(condition, n + 1)

\* The list "columns" after the loop over the conditions.
RECURSIVE ConditionColumns(_)
ConditionColumns(conditions) ==
    IF conditions = <<>> THEN <<>>
    ELSE EqualityColumns(Head(conditions)) \o RangeColumns(Head(conditions), 1)
             \o ConditionColumns(Tail(conditions))

\* The list "columns" of one query; empty when the loop body ends at a
\* "continue".
QueryColumns(query) ==
    LET text == Upper(query.query_text)
        where_pos == Find(text, <<"WHERE">>, 1)
    IN  IF ~StartsWith(text, <<"SELECT">>) \/ where_pos = 0 THEN <<>>
        ELSE ConditionColumns(Split(
                 TruncateWhere(SubSeq(text, where_pos + 1, Len(text)), 1), <<"AND">>))

\* The code of the first character of an atom that stands in a column.
AtomOrd(a) ==
    CASE a = SP -> 32 [] a = "<" -> 60 [] a = ">" -> 62 [] a = "A" -> 65
      [] a = "B" -> 66 [] a = "T" -> 84 [] a = "U" -> 85 [] a = "W" -> 87
      [] a = "X" -> 88 [] a = "Y" -> 89 [] a = "Z" -> 90 [] OTHER -> 0

\* s < t for Python strings
RECURSIVE StrLess(_, _)
StrLess(s, t) ==
    IF t = <<>> THEN FALSE
    ELSE IF s = <<>> THEN TRUE
    ELSE IF s[1] = t[1] THEN StrLess(Tail(s), Tail(t))
    ELSE AtomOrd(s[1]) < AtomOrd(t[1])

\* sorted(S)
RECURSIVE SortedStrings(_)
SortedStrings(S) ==
    IF S = {} THEN <<>>
    ELSE LET least == CHOOSE x \in S : \A y \in S \ {x} : StrLess(x, y)
         IN  <<least>> \o SortedStrings(S \ {least})

\* ','.join(parts)
RECURSIVE JoinComma(_)
JoinComma(parts) ==
    IF parts = <<>> THEN <<>>
    ELSE IF Len(parts) = 1 THEN parts[1]
    ELSE parts[1] \o <<",">> \o JoinComma(Tail(parts))

\* "col_set = ','.join(sorted(set(columns)))"
ColSet(columns) == JoinComma(SortedStrings({columns[k] : k \in 1..Len(columns)}))

\* Mutant of AddToKey: a new item is made for every query.
AddToKeyAlwaysNew(d, key, query) == Append(d, [key |-> key, queries |-> <<query>>])

\* "if key not in d: d[key] = []" and "d[key].append(query)", for a dict
\* kept as the list of its items in insertion order.
AddToKey(d, key, query) ==
    IF \E k \in 1..Len(d) : d[k].key = key
    THEN [k \in 1..Len(d) |->
             IF d[k].key = key THEN [d[k] EXCEPT !.queries = Append(@, query)] ELSE d[k]]
    ELSE Append(d, [key |-> key, queries |-> <<query>>])

\* potential_columns after the first n queries.
RECURSIVE PotentialColumns(_, _)
PotentialColumns(table_q, n) ==
    IF n = 0 THEN <<>>
    ELSE LET columns == QueryColumns(table_q[n])
         IN  IF columns = <<>> THEN PotentialColumns(table_q, n - 1)
             ELSE AddToKey(PotentialColumns(table_q, n - 1), ColSet(columns), table_q[n])

\* IndexRecommender._identify_potential_index_columns; "table" is not used.
IdentifyPotentialIndexColumns(table, table_q) == PotentialColumns(table_q, Len(table_q))

\* table_queries after the tables of "query" from number n on were added.
RECURSIVE AddUnderTables(_, _, _)
AddUnderTables(d, query, n) ==
    IF n > Len(query.tables_accessed) THEN d
    ELSE AddUnderTables(AddToKey(d, query.tables_accessed[n], query), query, n + 1)

\* table_queries after the first n queries; a query without tables adds
\* nothing.
RECURSIVE TableQueries(_, _)
TableQueries(qs, n) ==
    IF n = 0 THEN <<>> ELSE AddUnderTables(TableQueries(qs, n - 1), qs[n], 1)

\* The place list.sort(key=..., reverse=True) gives the element at j: after
\* the larger keys, and after the equal keys that stood before it.
Rank(keys, j) ==
    1 + Cardinality({k \in 1..Len(keys) :
                        keys[k] > keys[j] \/ (keys[k] = keys[j] /\ k < j)})

\* seq.sort(key=..., reverse=True), keys[j] being the key of seq[j].
SortDescending(seq, keys) ==
    [p \in 1..Len(seq) |-> seq[CHOOSE j \in 1..Len(seq) : Rank(keys, j) = p]]

\* sum(q.execution_time_ms for q in queries_impacted), in microseconds.
RECURSIVE TotalTime(_)
TotalTime(queries_impacted) ==
    IF queries_impacted = <<>> THEN 0
    ELSE Head(queries_impacted).execution_time_ms + TotalTime(Tail(queries_impacted))

\* The literal 100 of the score, in millionths.
ScoreCap == 100000000

\* Mutant of ImpactScore: the frequency is left out.
ImpactScoreNoFrequency(total_time, frequency) ==
    IF total_time < ScoreCap THEN total_time ELSE ScoreCap

\* "min(100, (total_time * frequency) / 1000)", in millionths: total_time is
\* in microseconds, so the quotient in millionths is total_time * frequency.
ImpactScore(total_time, frequency) ==
    IF total_time * frequency < ScoreCap THEN total_time * frequency ELSE ScoreCap

\* Mutant of SkipColumnSet: no column set is skipped.
SkipColumnSetNever(col_set) == FALSE

\* "if len(col_set.split(',')) > 3: continue"
SkipColumnSet(col_set) == Len(SplitComma(col_set)) > 3

\* models.recommendation.Recommendation as analyze_queries builds it; title,
\* description and sql_script are texts made of table, col_set, frequency and
\* total_time, and recommendation_id is a fresh uuid4.
Recommendation(table, col_set, queries_impacted) ==
    [type |-> "index",
     title |-> <<"Add index on">> \o table \o <<"(">> \o col_set \o <<")">>,
     impact_score |-> ImpactScore(TotalTime(queries_impacted), Len(queries_impacted)),
     related_objects |-> <<table>>,
     source_queries |-> [k \in 1..Len(queries_impacted) |-> queries_impacted[k].query_id]]

\* The recommendations appended for one table, from item number n of
\* potential_columns on.
RECURSIVE TableRecommendations(_, _, _)
TableRecommendations(table, potential_columns, n) ==
    IF n > Len(potential_columns) THEN <<>>
    ELSE (IF SkipColumnSet(potential_columns[n].key) THEN <<>>
          ELSE <<Recommendation(table, potential_columns[n].key,
                                potential_columns[n].queries)>>)
             \o TableRecommendations(table, potential_columns, n + 1)

\* The recommendations appended by the loop over table_queries, from item
\* number n on.
RECURSIVE Appended(_, _)
Appended(table_queries, n) ==
    IF n > Len(table_queries) THEN <<>>
    ELSE LET table == table_queries[n].key
             unsorted == table_queries[n].queries
             table_q == SortDescending(unsorted,
                            [k \in 1..Len(unsorted) |-> unsorted[k].execution_time_ms])
         IN  TableRecommendations(table, IdentifyPotentialIndexColumns(table, table_q), 1)
                 \o Appended(table_queries, n + 1)

\* Mutant of SortRecommendations: the list is left in the order of emission.
SortRecommendationsSkipped(recs) == recs

\* "self.recommendations.sort(key=lambda r: r.impact_score, reverse=True)"
SortRecommendations(recs) ==
    SortDescending(recs, [k \in 1..Len(recs) |-> recs[k].impact_score])

\* IndexRecommender.analyze_queries
AnalyzeQueries(qs) == SortRecommendations(Appended(TableQueries(qs, Len(qs)), 1))

\* The lists a set can be turned into by list(set(...)).
Orderings(S) ==
    {f \in [1..Cardinality(S) -> S] : \A a, b \in 1..Cardinality(S) : a # b => f[a] # f[b]}

\* The Queries the parser builds for a statement, tables_accessed in each
\* order list(set(tables)) can give.
Listed(query_id, text, execution_time_ms) ==
    {[Query(query_id, text, execution_time_ms, 1) EXCEPT !.tables_accessed = tabs] :
        tabs \in Orderings(ExtractTables(text))}

MsgWhereX == <<"SELECT", SP, "a", SP, "FROM", SP, "t", SP, "WHERE", SP, "x", SP,
               "=", SP, "635">>
MsgWhereRange == <<"SELECT", SP, "a", SP, "FROM", SP, "t", SP, "WHERE", SP, "x", SP,
                   "=", SP, "1", SP, "AND", SP, "b", SP, ">", "=", SP, "1">>
MsgWhereFour == <<"SELECT", SP, "a", SP, "FROM", SP, "t", ",", SP, "u", SP, "WHERE", SP,
                  "w", SP, "=", SP, "1", SP, "AND", SP, "x", SP, "=", SP, "1", SP,
                  "AND", SP, "y", SP, "=", SP, "1", SP, "AND", SP, "z", SP, "=", SP, "1">>
MsgWhereLimit == <<"SELECT", SP, "a", SP, "FROM", SP, "u", SP, "WHERE", SP,
                   "u", ".", "y", SP, "=", SP, "635", SP, "LIMIT", SP, "1">>
MsgUpdate == <<"UPDATE", SP, "t", SP, "SET", SP, "x", SP, "=", SP, "1", SP,
               "WHERE", SP, "y", SP, "=", SP, "1">>
MsgWhereTwoTables == <<"SELECT", SP, "a", SP, "FROM", SP, "t", ",", SP, "u", SP,
                       "WHERE", SP, "x", SP, "=", SP, "1">>

\* The Queries the batches are made of: two statements of 50 ms and 30 ms with
\* one column set, a range condition, four columns on two tables, a slow
\* statement with a qualified column and a LIMIT, an UPDATE, and one column on
\* two tables.
SampleQueries ==
    Listed("q1", MsgWhereX, 50000) \cup Listed("q2", MsgWhereX, 30000)
        \cup Listed("q3", MsgWhereRange, 250) \cup Listed("q4", MsgWhereFour, 12345)
        \cup Listed("q5", MsgWhereLimit, 200000000) \cup Listed("q6", MsgUpdate, 100)
        \cup Listed("q7", MsgWhereTwoTables, 100)

\* A call of analyze_queries on the batch.
Analyze ==
    /\ pc = "analyze"
    /\ recommendations' = AnalyzeQueries(batch)
    /\ pc' = "analyzed"
    /\ UNCHANGED <<parser_vars, pattern_input, pattern, batch, pattern_list, local_zone>>

NextRecommender == Analyze

InitRecommender ==
    /\ ParserIdle({}, 0)
    /\ pc = "analyze"
    /\ pattern_input = <<>>
    /\ pattern = <<>>
    /\ batch \in SeqsUpTo(SampleQueries, MaxBatch)
    /\ recommendations = <<>>
    /\ pattern_list = <<>>
    /\ local_zone = "UTC"

SpecRecommender == InitRecommender /\ [][NextRecommender]_vars

\* The queries of the batch that contribute to recommendation r: they access
\* its table and their WHERE clause gives its column set.
Contributors(r) ==
    SelectSeq(batch, LAMBDA q :
        /\ \E n \in 1..Len(q.tables_accessed) : <<q.tables_accessed[n]>> = r.related_objects
        /\ QueryColumns(q) # <<>>
        /\ r.title = <<"Add index on">> \o r.related_objects[1] \o <<"(">>
                         \o ColSet(QueryColumns(q)) \o <<")">>)

RECURSIVE SumOfTimes(_)
SumOfTimes(qs) == IF qs = <<>> THEN 0 ELSE qs[1].execution_time_ms + SumOfTimes(Tail(qs))

\* The number of distinct candidate columns of a query.
DistinctColumns(q) == Cardinality({QueryColumns(q)[n] : n \in 1..Len(QueryColumns(q))})

\* C12: every emitted recommendation has impact_score
\* min(100, total_time * frequency / 1000) over the queries that contribute its
\* column set for its table, so it lies in [0, 100]; the two statements of
\* 50 ms and 30 ms with column set {x} on one table give one recommendation
\* with score 0.16 and both query ids.
C12_ImpactScore ==
    pc = "analyzed" =>
        /\ \A k \in 1..Len(recommendations) :
              LET r == recommendations[k]
                  product == SumOfTimes(Contributors(r)) * Len(Contributors(r))
              IN  /\ r.impact_score = IF product < 100000000 THEN product ELSE 100000000
                  /\ r.impact_score >= 0
                  /\ r.impact_score <= 100000000
        /\ (Len(batch) = 2 /\ batch[1].query_id = "q1" /\ batch[2].query_id = "q2") =>
              /\ Len(recommendations) = 1
              /\ recommendations[1].impact_score = 160000
              /\ recommendations[1].source_queries = <<"q1", "q2">>

\* The 50 ms and 30 ms statements have been analyzed.
C12_Witness ==
    /\ pc = "analyzed"
    /\ Len(batch) = 2 /\ batch[1].query_id = "q1" /\ batch[2].query_id = "q2"
    /\ Len(recommendations) = 1
    /\ recommendations[1].impact_score = 160000

\* C13: no recommendation is emitted for a column set of more than 3
\* candidate columns: a query whose WHERE clause gives 4 or more distinct
\* candidate columns is a source query of no recommendation, on any table.
C13_ColumnSetCap ==
    pc = "analyzed" =>
        \A k \in 1..Len(recommendations) :
            /\ \A j \in 1..Len(batch) :
                  DistinctColumns(batch[j]) >= 4 =>
                      \A n \in 1..Len(recommendations[k].source_queries) :
                          recommendations[k].source_queries[n] # batch[j].query_id
            /\ \A j \in 1..Len(Contributors(recommendations[k])) :
                  DistinctColumns(Contributors(recommendations[k])[j]) <= 3

\* A batch with a four-column query on two tables and another query that got
\* a recommendation has been analyzed.
C13_Witness ==
    /\ pc = "analyzed"
    /\ \E j \in 1..Len(batch) :
          DistinctColumns(batch[j]) >= 4 /\ Len(batch[j].tables_accessed) = 2
    /\ recommendations # <<>>

\* C14: the list analyze_queries returns is in non-increasing order of
\* impact_score.
C14_SortedByImpact ==
    pc = "analyzed" =>
        \A k \in 1..(Len(recommendations) - 1) :
            recommendations[k].impact_score >= recommendations[k + 1].impact_score

\* Recommendations were emitted in another order than the one returned.
C14_Witness ==
    /\ pc = "analyzed"
    /\ Len(recommendations) >= 2
    /\ recommendations # Appended(TableQueries(batch, Len(batch)), 1)
    /\ recommendations[1].impact_score > recommendations[2].impact_score

\* ------------------------------------- more inputs of the parser, and runs
\* Atoms holding a timing annotation, and the number N they carry, in
\* thousandths of a second.
GeneratedAtoms == {"[generated in 0.002s]"}
CachedAtoms == {"[cached since 22.05s ago]"}
AnnotationMillis(a) ==
    CASE a = "[generated in 0.002s]" -> 2
      [] a = "[cached since 22.05s ago]" -> 22050
      [] OTHER -> 0

MsgGenerated == <<"[generated in 0.002s]", SP, "{'p': 1}">>
MsgCachedGenerated == <<"[cached since 22.05s ago]", SP, "[generated in 0.002s]">>
MsgBracket == <<"[abc1]", SP, "a">>
MsgCommitPrepared == <<"COMMIT", SP, "PREPARED">>
MsgRollbackTo == <<"ROLLBACK", SP, "TO", SP, "a">>

LGenerated == SaLine(SaStamp(3), "INFO", MsgGenerated)
LCachedGenerated == SaLine(SaStamp(3), "INFO", MsgCachedGenerated)
LBracket == SaLine(SaStamp(2), "INFO", MsgBracket)
LCommitPrepared == SaLine(SaStamp(2), "INFO", MsgCommitPrepared)
LRollbackTo == SaLine(SaStamp(3), "INFO", MsgRollbackTo)

PoolTiming == {LSelect, LGenerated, LCached, LCachedGenerated, LBracket}
PoolRestart == {LSelect, LSelect2, LRawClause, LCached}
PoolPrefix == {LSelect, LCommitPrepared, LRollbackTo, LCommit, LBegin}

InitTiming == InitWith(PoolTiming, 1)
SpecTiming == InitTiming /\ [][Next]_vars

InitRestart == InitWith(PoolRestart, 1)
SpecRestart == InitRestart /\ [][Next]_vars

InitPrefix == InitWith(PoolPrefix, 1)
SpecPrefix == InitPrefix /\ [][Next]_vars

\* The loop is about to take a terminal line while a collection is open and
\* holds fragments.
AtTerminalLine == AtLine /\ IsTerminalLine(NextLine) /\ is_collecting_sql /\ sql_parts # <<>>

\* The annotations of a message.
Generated(message) == {message[k] : k \in 1..Len(message)} \cap GeneratedAtoms
Cached(message) == {message[k] : k \in 1..Len(message)} \cap CachedAtoms

\* ------------------------------------------------------------------ C15
\* C15: a terminal line with a 'generated in N s' annotation finalizes the
\* Query with execution_time_ms N * 1000, also when the line carries a
\* 'cached since' annotation as well.
C15_Step ==
    (AtTerminalLine /\ Generated(OrmMessage(NextLine)) # {}) =>
        /\ Len(queries') = Len(queries) + 1
        /\ \E a \in Generated(OrmMessage(NextLine)) :
              Last(queries').execution_time_ms = AnnotationMillis(a) * 1000

C15_GeneratedIn == [][C15_Step]_vars

\* ------------------------------------------------------------------ C16
\* C16: a terminal line with a 'cached since N s ago' annotation and no
\* 'generated in' annotation finalizes the Query with execution_time_ms
\* min(N * 100, 10.0), never more than 10.0; a terminal line with neither
\* annotation gives the nominal 0.1.
C16_Step ==
    AtTerminalLine =>
        LET message == OrmMessage(NextLine)
        IN  /\ (Cached(message) # {} /\ Generated(message) = {}) =>
                  /\ Len(queries') = Len(queries) + 1
                  /\ \E a \in Cached(message) :
                        Last(queries').execution_time_ms =
                            IF AnnotationMillis(a) * 100 < 10000
                            THEN AnnotationMillis(a) * 100 ELSE 10000
                  /\ Last(queries').execution_time_ms <= 10000
            /\ (Cached(message) = {} /\ Generated(message) = {}) =>
                  /\ Len(queries') = Len(queries) + 1
                  /\ Last(queries').execution_time_ms = NominalMicros

C16_CachedSince == [][C16_Step]_vars

\* ------------------------------------------------------------------ C17
\* C17: a transaction line processed while a collection is open and holds
\* fragments appends two Queries, first the buffered statement (the fragments
\* joined by single blanks, the timestamp of its opening line, 0.1 ms), then
\* the transaction statement; after the step the collection is closed and
\* the fragments are empty.
C17_Step ==
    (AtLine /\ IsTxnLine(NextLine) /\ is_collecting_sql /\ sql_parts # <<>>) =>
        LET n == Len(queries)
            seen == SubSeq(lines, 1, i)
        IN  /\ Len(queries') = n + 2
            /\ SubSeq(queries', 1, n) = queries
            /\ queries'[n + 1].query_text = Join(sql_parts)
            /\ StartLines(seen) # {}
            /\ queries'[n + 1].timestamp = OrmTime(lines[LastStart(seen)])
            /\ queries'[n + 1].execution_time_ms = NominalMicros
            /\ queries'[n + 2].query_text = OrmMessage(NextLine)
            /\ queries'[n + 2].timestamp = OrmTime(NextLine)
            /\ ~is_collecting_sql'
            /\ sql_parts' = <<>>

C17_FlushThenTransaction == [][C17_Step]_vars

\* A COMMIT line was taken with a statement of two fragments open.
C17_Witness ==
    /\ lines = <<LSelect, LRawMarker, LCommit>>
    /\ i = 3
    /\ Len(queries) = 2
    /\ queries[1].query_text = MsgSelect \o <<SP>> \o FragWhere
    /\ queries[1].timestamp = 1
    /\ queries[2].query_text = MsgCommit
    /\ ~is_collecting_sql

\* ------------------------------------------------------------------ C18
\* C18: a statement-start line processed while a collection is open and holds
\* fragments emits no Query: the fragments become exactly its message, the
\* open timestamp becomes its timestamp and the Queries are unchanged; no
\* later step emits the replaced buffer either: a Query emitted later starts
\* with the message of the latest statement-start line and has its timestamp.
C18_Step ==
    (AtLine /\ IsStartLine(NextLine) /\ is_collecting_sql /\ sql_parts # <<>>) =>
        /\ queries' = queries
        /\ sql_parts' = <<OrmMessage(NextLine)>>
        /\ current_timestamp' = OrmTime(NextLine)
        /\ is_collecting_sql'

C18_Later ==
    (pc = "loop" /\ Len(queries') > Len(queries)) =>
        LET seen == SubSeq(lines, 1, i)
            opening == lines[LastStart(seen)]
        IN  /\ StartLines(seen) # {}
            /\ Len(queries') = Len(queries) + 1
            /\ Last(queries').timestamp = OrmTime(opening)
            /\ SubSeq(Last(queries').query_text, 1, Len(OrmMessage(opening)))
                   = OrmMessage(opening)

C18_NoFlushOnRestart == [][C18_Step /\ C18_Later]_vars

\* A second statement started while the first was open with two fragments,
\* and only the second was emitted.
C18_Witness ==
    /\ pc = "done"
    /\ lines = <<LSelect, LRawClause, LSelect2, LCached>>
    /\ Len(queries) = 1
    /\ queries[1].query_text = <<"SELECT", SP, "b">>
    /\ queries[1].timestamp = 2

\* ------------------------------------------------------------------ C19
\* C19: an ORM line whose message starts with COMMIT or ROLLBACK and goes on
\* with other text is not a transaction line: it emits no Query and leaves an
\* open collection as it is.
C19_Step ==
    (/\ AtLine
     /\ IsOrmLine(NextLine)
     /\ StartsWithAny(OrmMessage(NextLine), {<<"COMMIT">>, <<"ROLLBACK">>})
     /\ OrmMessage(NextLine) \notin {MsgCommit, MsgRollback}) =>
        /\ queries' = queries
        /\ is_collecting_sql' = is_collecting_sql
        /\ sql_parts' = sql_parts

C19_ExactCommitRollback == [][C19_Step]_vars

\* ------------------------------------------------------------------ C20
\* C20: a line is handled by one rule only, the native rule first: a line
\* that matches the native pattern appends at most one Query and leaves the
\* collection, its fragments and its open timestamp unchanged; a
\* statement-start line is not also handled as a transaction or terminal
\* line, so it appends no Query.
C20_Step ==
    /\ (AtLine /\ PgMatch(NextLine)) =>
          /\ Len(queries') <= Len(queries) + 1
          /\ SubSeq(queries', 1, Len(queries)) = queries
          /\ is_collecting_sql' = is_collecting_sql
          /\ sql_parts' = sql_parts
          /\ current_timestamp' = current_timestamp
    /\ (AtLine /\ ~PgMatch(NextLine) /\ IsStartLine(NextLine)) => queries' = queries

C20_OneRulePerLine == [][C20_Step]_vars

\* A native duration line was taken while a statement was open: its Query was
\* appended and the statement is still open.
C20_Witness ==
    /\ pc = "loop"
    /\ i = 2
    /\ lines[1] = LSelect2
    /\ lines[2] = LPgDuration
    /\ Len(queries) = 1
    /\ queries[1].execution_time_ms = 12345
    /\ is_collecting_sql
    /\ sql_parts = <<<<"SELECT", SP, "b">>>>
    /\ current_timestamp = 2

\* ------------------------------------------------------------------ C21
\* a marker line with a time stamp that does not have the ORM form
LStampMarker == <<SaStamp(2), SP, "DEBUG", SP, "Line", SP, "635", SP, MARKER, SP>> \o FragFrom

PoolFragment == {LSelect, LRawMarker, LStampMarker, LCached}
InitFragment == InitWith(PoolFragment, 1)
SpecFragment == InitFragment /\ [][Next]_vars

\* C21: while a collection is open, a line that matches neither line pattern
\* and carries the marker appends exactly one fragment, the trimmed text after
\* the colon of the marker, whatever colons stand earlier in the line.
C21_Step ==
    (/\ AtLine
     /\ is_collecting_sql
     /\ ~IsBlank(NextLine) /\ ~PgMatch(NextLine) /\ ~SaMatch(NextLine)
     /\ CarriesMarker(NextLine)) =>
        sql_parts' = Append(sql_parts, MarkerFragment(NextLine))

C21_FragmentAfterMarker == [][C21_Step]_vars

\* ------------------------------------------------------------------ C22
PoolBadStamp == {LSelect, LSaBadStamp, LPgBadStamp, LPgCommaStamp, LCommit}
InitBadStamp == InitWith(PoolBadStamp, 1)
SpecBadStamp == InitBadStamp /\ [][Next]_vars

\* The line matched a line pattern and its timestamp does not parse.
FailsToParse(line) ==
    \/ PgMatch(line) /\ PgStrptime(PgGroups(line).timestamp_str) = None
    \/ ~PgMatch(line) /\ SaMatch(line) /\ SaStrptime(SaGroups(line).timestamp_str) = None

\* C22: a line that matched a line pattern and whose timestamp fails to parse
\* adds exactly one to errors, emits no Query, leaves the collection, its
\* fragments, its open timestamp, start_time and end_time unchanged, and the
\* loop goes on with the next line; at return errors counts these lines.
C22_Step ==
    (AtLine /\ ~IsBlank(NextLine) /\ FailsToParse(NextLine)) =>
        /\ log_stats'.errors = log_stats.errors + 1
        /\ queries' = queries
        /\ is_collecting_sql' = is_collecting_sql
        /\ sql_parts' = sql_parts
        /\ current_timestamp' = current_timestamp
        /\ log_stats'.start_time = log_stats.start_time
        /\ log_stats'.end_time = log_stats.end_time
        /\ pc' = "loop"
        /\ i' = i + 1

C22_Returned ==
    pc = "done" =>
        log_stats.errors = Cardinality({k \in 1..Len(lines) : FailsToParse(lines[k])})

C22_TimestampError == [][C22_Step]_vars /\ []C22_Returned

\* Two lines with a bad timestamp, of either dialect, stood between a
\* statement start and a COMMIT, and both statements were emitted.
C22_Witness ==
    /\ pc = "done"
    /\ lines = <<LSelect, LSaBadStamp, LPgBadStamp, LCommit>>
    /\ log_stats.errors = 2
    /\ Len(queries) = 2
    /\ queries[1].query_text = MsgSelect

\* ------------------------------------------------------------------ C23
\* The text has a single-quoted UUID literal at k: an opening quote (an even
\* number of quotes stands before it), UUID text, a closing quote.
UuidLiteralAt(text, k) ==
    /\ k + 2 <= Len(text)
    /\ text[k] = QUOTE /\ text[k + 1] \in UuidAtoms /\ text[k + 2] = QUOTE
    /\ Cardinality({j \in 1..(k - 1) : text[j] = QUOTE}) % 2 = 0

\* C23: a UUID-shaped single-quoted literal gets a placeholder of its own: the
\* pattern of a text with such a literal differs from the pattern of the text
\* that has a short string literal in its place.
C23_UuidPlaceholder ==
    pc = "renormalize" =>
        \A k \in 1..Len(pattern_input) :
            UuidLiteralAt(pattern_input, k) =>
                pattern # GenerateQueryPattern([pattern_input EXCEPT ![k + 1] = "a"])

\* ------------------------------------------------- get_query_patterns
\* "patterns" after the first n queries: the dict of get_query_patterns, kept
\* as the list of its items in insertion order.
RECURSIVE Patterns(_, _)
Patterns(qs, n) ==
    IF n = 0 THEN <<>>
    ELSE AddToKey(Patterns(qs, n - 1), GenerateQueryPattern(qs[n].query_text), qs[n])

\* Mutant of SortPatternList: the list is returned in insertion order.
SortPatternListSkipped(pl) == pl

\* "pattern_list.sort(key=lambda x: len(x[1]), reverse=True)"
SortPatternList(pl) == SortDescending(pl, [k \in 1..Len(pl) |-> Len(pl[k].queries)])

\* PostgreSQLLogParser.get_query_patterns
GetQueryPatterns(qs) == SortPatternList(Patterns(qs, Len(qs)))

\* A caller asks for the patterns of the queries parse_file returned.
CallGetQueryPatterns ==
    /\ pc = "done"
    /\ pattern_list' = GetQueryPatterns(queries)
    /\ pc' = "grouped"
    /\ UNCHANGED <<parser_vars, pattern_input, pattern, batch, recommendations, local_zone>>

NextGrouping ==
    \/ \E content \in SeqsUpTo(pool, MaxLines) : ReadInput(content)
    \/ \E sample_size \in 0..MaxSample : Sample(sample_size)
    \/ LoopStep
    \/ Finish
    \/ CallGetQueryPatterns

MsgSelect635 == <<"duration:", SP, "0.250", SP, "ms", SP, SP, "statement:", SP,
                  "SELECT", SP, "635">>
MsgSelect1 == <<"duration:", SP, "12.345", SP, "ms", SP, SP, "statement:", SP,
                "SELECT", SP, "1">>
LPgSelect635 == PgLine(PgStamp(2), MsgSelect635)
LPgSelect1 == PgLine(PgStamp(3), MsgSelect1)

PoolGrouping == {LPgExecute, LPgSelect635, LPgSelect1, LCommit}
InitGrouping == InitWith(PoolGrouping, 1)
SpecGrouping == InitGrouping /\ [][NextGrouping]_vars

\* ------------------------------------------------------------------ C24
PatternOf(q) == GenerateQueryPattern(q.query_text)
\* The queries with pattern p, in emission order.
WithPattern(p) == LET Has(q) == PatternOf(q) = p IN SelectSeq(queries, Has)
\* The place of the first query with pattern p.
FirstSeen(p) == CHOOSE k \in 1..Len(queries) :
                    /\ PatternOf(queries[k]) = p
                    /\ \A j \in 1..(k - 1) : PatternOf(queries[j]) # p

\* C24: get_query_patterns returns buckets that partition the queries by
\* pattern, members in emission order; the buckets stand by non-increasing
\* member count, and buckets of equal count stand in the order in which their
\* patterns were first met.
C24_PatternBuckets ==
    pc = "grouped" =>
        /\ \A k \in 1..Len(queries) :
               \E b \in 1..Len(pattern_list) : pattern_list[b].key = PatternOf(queries[k])
        /\ \A a, b \in 1..Len(pattern_list) :
               /\ pattern_list[a].queries # <<>>
               /\ pattern_list[a].queries = WithPattern(pattern_list[a].key)
               /\ a # b => pattern_list[a].key # pattern_list[b].key
               /\ a < b => Len(pattern_list[a].queries) >= Len(pattern_list[b].queries)
               /\ (a < b /\ Len(pattern_list[a].queries) = Len(pattern_list[b].queries))
                      => FirstSeen(pattern_list[a].key) < FirstSeen(pattern_list[b].key)

\* One UPDATE, then two SELECTs with different numbers, then a COMMIT: the
\* bucket of the SELECTs moves to the front, the two others keep their order.
C24_Witness ==
    /\ pc = "grouped"
    /\ lines = <<LPgExecute, LPgSelect635, LPgSelect1, LCommit>>
    /\ Len(pattern_list) = 3
    /\ pattern_list[1].key = <<"SELECT", SP, "N">>
    /\ Len(pattern_list[1].queries) = 2
    /\ pattern_list[2].key = <<"UPDATE", SP, "t">>
    /\ pattern_list[3].key = <<"COMMIT">>

\* ------------------------------------------------------------------ C25
\* The recommendation is for this table and this column set.
IsFor(r, table, col_set) ==
    /\ r.related_objects = <<table>>
    /\ r.title = <<"Add index on">> \o table \o <<"(">> \o col_set \o <<")">>

\* How many times x stands in seq.
Occurrences(seq, x) == Cardinality({n \in 1..Len(seq) : seq[n] = x})

\* C25: analyze_queries emits exactly one recommendation per (table, column
\* set) pair of at most 3 columns: no two recommendations share table and
\* column set, a SELECT with a WHERE clause contributes its column set to each
\* of its tables, related_objects is [table], and source_queries holds exactly
\* the ids of the queries of that table that gave that column set.
C25_OnePerTableAndColumnSet ==
    pc = "analyzed" =>
        /\ \A a, b \in 1..Len(recommendations) :
               (/\ recommendations[a].related_objects = recommendations[b].related_objects
                /\ recommendations[a].title = recommendations[b].title) => a = b
        /\ \A j \in 1..Len(batch) : \A n \in 1..Len(batch[j].tables_accessed) :
               (QueryColumns(batch[j]) # <<>> /\ DistinctColumns(batch[j]) <= 3) =>
                   \E k \in 1..Len(recommendations) :
                       /\ IsFor(recommendations[k], batch[j].tables_accessed[n],
                                ColSet(QueryColumns(batch[j])))
                       /\ Occurrences(recommendations[k].source_queries,
                                      batch[j].query_id) >= 1
        /\ \A k \in 1..Len(recommendations) :
               LET r == recommendations[k]
                   ids == [j \in 1..Len(Contributors(r)) |-> Contributors(r)[j].query_id]
               IN  /\ Len(r.related_objects) = 1
                   /\ ids # <<>>
                   /\ Len(r.source_queries) = Len(ids)
                   /\ \A j \in 1..Len(ids) :
                          Occurrences(r.source_queries, ids[j]) = Occurrences(ids, ids[j])

\* The statement on t and u was analyzed with another statement on t that has
\* the same column set: one recommendation for T with both ids, one for U.
C25_Witness ==
    /\ pc = "analyzed"
    /\ Len(batch) = 2 /\ batch[1].query_id = "q7" /\ batch[2].query_id = "q1"
    /\ Len(recommendations) = 2
    /\ \E k \in 1..2 :
          /\ IsFor(recommendations[k], <<"T">>, <<"X">>)
          /\ Len(recommendations[k].source_queries) = 2
          /\ IsFor(recommendations[3 - k], <<"U">>, <<"X">>)
          /\ recommendations[3 - k].source_queries = <<"q7">>

\* ------------------------------------------------------------------ C26
\* The five comparison operators, as tokens.
ComparisonOps == {<<"=">>, <<">">>, <<"<">>, <<">", "=">>, <<"<", "=">>}

\* The words after WHERE of a query text, upper-cased.
WhereWords(q) ==
    LET text == Upper(q.query_text)
        where_pos == Find(text, <<"WHERE">>, 1)
    IN  IF where_pos = 0 THEN <<>> ELSE Tokens(SubSeq(text, where_pos + 1, Len(text)))

\* The query is a SELECT whose WHERE clause is made of conditions
\* "col OP value" joined by AND.
PlainConditions(q) ==
    LET words == WhereWords(q)
    IN  /\ StartsWith(Upper(q.query_text), <<"SELECT">>)
        /\ Len(words) % 4 = 3
        /\ \A m \in 1..Len(words) :
               /\ m % 4 = 2 => words[m] \in ComparisonOps
               /\ m % 4 = 0 => words[m] = <<"AND">>

\* A token without its qualifier: what follows its last ".".
Unqualified(token) ==
    LET dots == {n \in 1..Len(token) : token[n] = "."}
        last == IF dots = {} THEN 0 ELSE CHOOSE n \in dots : \A d \in dots : d <= n
    IN  SubSeq(token, last + 1, Len(token))

\* The left-hand tokens of the conditions, without qualifiers.
LeftHandColumns(q) ==
    {Unqualified(WhereWords(q)[m]) : m \in {m \in 1..Len(WhereWords(q)) : m % 4 = 1}}

\* C26: a WHERE condition "col OP value", OP one of =, >, <, >=, <=,
\* contributes exactly one candidate column, its left-hand token without the
\* table qualifier: a SELECT whose WHERE clause is made of such conditions has
\* the column set of their left-hand columns, and (for at most 3 columns) each
\* of its tables gets the recommendation for that column set.
C26_OneColumnPerCondition ==
    pc = "analyzed" =>
        \A j \in 1..Len(batch) : \A n \in 1..Len(batch[j].tables_accessed) :
            (PlainConditions(batch[j]) /\ Cardinality(LeftHandColumns(batch[j])) <= 3) =>
                \E k \in 1..Len(recommendations) :
                    IsFor(recommendations[k], batch[j].tables_accessed[n],
                          JoinComma(SortedStrings(LeftHandColumns(batch[j]))))

\* ------------------------------------------------------------------ C27
LRawFromTwo == <<"FROM", SP, "t", ",", SP, "u">>
LRawFromStock == <<"FROM", SP, "stock_company_info">>
LRawLimitTwo == <<"LIMIT", SP, "635", ",", SP, "1">>

PoolTables == {LSelect, LRawFromTwo, LRawFromStock, LRawMarker, LRawLimitTwo}
InitTables == InitWith(PoolTables, 1)
SpecTables == InitTables /\ [][Next]_vars

\* The places of text where one of the six clause keywords stands.
ClauseKeywords == {<<"WHERE">>, <<"GROUP", SP, "BY">>, <<"HAVING">>, <<"ORDER", SP, "BY">>,
                   <<"LIMIT">>, <<"OFFSET">>}
KeywordPlaces(text) ==
    {k \in 1..Len(text) :
        \E kw \in ClauseKeywords :
            k + Len(kw) - 1 <= Len(text) /\ SubSeq(text, k, k + Len(kw) - 1) = kw}

\* The text between the first FROM and the earliest clause keyword after it
\* (or the end of the text).
FromClauseOf(text) ==
    LET froms == {k \in 1..Len(text) : text[k] = "FROM"}
        first == CHOOSE k \in froms : \A j \in froms : k <= j
        rest == SubSeq(text, first + 1, Len(text))
        stops == KeywordPlaces(rest)
        stop == IF stops = {} THEN Len(rest) + 1
                ELSE CHOOSE k \in stops : \A j \in stops : k <= j
    IN  SubSeq(rest, 1, stop - 1)

\* The first tokens of the comma-separated references of a clause.
FirstTokens(clause) ==
    {Tokens(SplitComma(clause)[n])[1] :
        n \in {n \in 1..Len(SplitComma(clause)) : Tokens(SplitComma(clause)[n]) # <<>>}}

\* A SELECT with a FROM clause and no JOIN.
SelectFrom(text) ==
    /\ text # <<>> /\ text[1] = "SELECT"
    /\ \E k \in 1..Len(text) : text[k] = "FROM"
    /\ \A k \in 1..Len(text) : text[k] # "JOIN"

StockStatement == <<"SELECT", SP, "a", SP, "FROM", SP, "stock_company_info", SP,
                    "WHERE", SP, "x", SP, "LIMIT", SP, "635", ",", SP, "1">>

\* C27: for a statement "SELECT ... FROM t1, t2 ... <clause keyword> ..." the
\* tables are the upper-cased first tokens of the comma-separated references
\* standing between the first FROM and the earliest following WHERE, GROUP BY,
\* HAVING, ORDER BY, LIMIT or OFFSET (or the end of the text); the statement
\* "SELECT ... FROM stock_company_info WHERE ... LIMIT ..." has exactly
\* STOCK_COMPANY_INFO.
C27_FromClauseTables ==
    \A k \in 1..Len(queries) :
        /\ SelectFrom(Upper(queries[k].query_text)) =>
               queries[k].tables_accessed = FirstTokens(FromClauseOf(Upper(queries[k].query_text)))
        /\ queries[k].query_text = StockStatement =>
               queries[k].tables_accessed = {<<"STOCK_COMPANY_INFO">>}

\* The statement on two tables was put together from its fragments and
\* emitted: the comma after LIMIT adds no table.
C27_Witness ==
    /\ pc = "done"
    /\ lines = <<LSelect, LRawFromTwo, LRawMarker, LRawLimitTwo>>
    /\ Len(queries) = 1
    /\ SelectFrom(Upper(queries[1].query_text))
    /\ Find(queries[1].query_text, <<"LIMIT", SP, "635", ",">>, 1) # 0
    /\ queries[1].tables_accessed = {<<"T">>, <<"U">>}

\* ------------------------------------------------------------------ C28
PoolCollect == {LSelect, LSelect2, LRawClause, LCached, LCommit}
InitCollect == InitWith(PoolCollect, 1)
SpecCollect == InitCollect /\ [][Next]_vars

\* The lines processed so far.
Seen == SubSeq(lines, 1, i)

\* C28: between two line-processing steps the collection state is
\* consistent: is_collecting_sql is true exactly when sql_parts is non-empty,
\* and when it is true current_timestamp is the timestamp of the most recent
\* statement-start line and sql_parts[0] is the message of that line.
C28_CollectionConsistent ==
    pc = "loop" =>
        /\ is_collecting_sql <=> sql_parts # <<>>
        /\ is_collecting_sql =>
               /\ StartLines(Seen) # {}
               /\ current_timestamp = OrmTime(lines[LastStart(Seen)])
               /\ sql_parts[1] = OrmMessage(lines[LastStart(Seen)])

\* A second statement was started over an open one and got a fragment.
C28_Witness ==
    /\ pc = "loop" /\ i = 3
    /\ SubSeq(lines, 1, 3) = <<LSelect, LSelect2, LRawClause>>
    /\ is_collecting_sql
    /\ current_timestamp = 2
    /\ sql_parts = <<<<"SELECT", SP, "b">>, FragLimit>>

\* ------------------------------------------------------------------ C29
\* The emitted Queries that hold a collected statement.
StatementQueries ==
    {k \in 1..Len(queries) :
        /\ queries[k].query_id.prefix = "sqlalchemy"
        /\ StartsWithAny(queries[k].query_text, StatementStarts)}

\* C29: a statement-start line gives rise to at most one Query: once its
\* collection was emitted by a terminal line or a transaction line, no later
\* line and not the final flush emits it again, so there are never more
\* statement Queries than statement-start lines processed.
C29_AtMostOncePerStart ==
    pc \in {"loop", "done"} => Cardinality(StatementQueries) <= Cardinality(StartLines(Seen))

\* A statement was emitted by its terminal line, a transaction line followed,
\* and the end of the input added nothing.
C29_Witness ==
    /\ pc = "done"
    /\ lines = <<LSelect, LCached, LCommit>>
    /\ Len(queries) = 2
    /\ StatementQueries = {1}
    /\ queries[2].query_text = MsgCommit

\* ------------------------------------------------------------------ C30
LBeginSkipped == SaLine(SaStamp(4), "INFO", MsgBegin)
LCommitAfter == SaLine(SaStamp(5), "INFO", MsgCommit)

PoolZones == {LSelect, LCached, LBegin, LBeginSkipped, LCommitAfter}
InitZones == InitWith(PoolZones, 1)
SpecZones == InitZones /\ [][Next]_vars

\* The emitted Queries of the ORM dialect.
OrmQueries == {k \in 1..Len(queries) : queries[k].query_id.prefix = "sqlalchemy"}

\* C30: the query_id of an ORM Query is a function of the timestamp of its
\* opening line only: two Queries of one run have equal ids when their
\* opening lines carry the same timestamp, whatever their texts, and
\* different ids when those timestamps differ.
C30_IdByTimestamp ==
    \A a, b \in OrmQueries :
        queries[a].query_id = queries[b].query_id <=> queries[a].timestamp = queries[b].timestamp
====
